---- MODULE Spec2Model ----
(***************************************************************************)
(* Model of ProxyClean's check.py: the Clash control-plane client          *)
(* (ClashAPI), the configuration store (ClashConfig) and the orchestrator  *)
(* (main).                                                                 *)
(*                                                                         *)
(* Two specifications share the variables:                                 *)
(*   Spec       one run of main(), from the parsed arguments to the exit;  *)
(*   SpecStore  ClashConfig.remove_invalid_proxies / update_group_proxies  *)
(*              applied to a document and a results collection drawn from  *)
(*              bounded sets.                                              *)
(***************************************************************************)
EXTENDS Integers, Sequences, FiniteSets, TLC

\* ------------------------------------------------------------------ bounds

\* The largest value of -n/--concurrent the runs are checked with.
MaxConcurrent == 2
\* The number of candidate ports (-p/--ports) of a run.
MaxPorts == 2
\* The clock advances in steps of TickSeconds, at most MaxTicks times.
MaxTicks == 2
TickSeconds == 30
\* The longest results collection handed to the store's operations.
MaxResults == 3

\* --------------------------------------------------------- program constants

\* float('inf'), the delay of a failed ProxyTestResult.
Inf == 1000000
\* The freshness window of the result cache, in seconds.
FreshSeconds == 60
\* MAX_CONCURRENT_TESTS as the module is loaded (the default of -n).
MAX_CONCURRENT_TESTS == 100

\* Delays (ms) the daemon may report.
Delays == {80, 120}
\* Endpoint names of the documents of a run of main().
ProxyNames == {"a", "x"}
\* Endpoint names of the documents handed to the store's operations.
StoreNames == {"a", "b", "c"}
\* The groups of every document, in document order.
GroupNames == <<"g1", "g2">>
\* No object: an empty cache slot, base_url = None.
None == [name |-> "None", delay |-> Inf, status |-> "none", tested_time |-> 0, id |-> 0]

VARIABLES
    \* ClashConfig
    config,             \* self.config / self.proxy_groups: the in-memory document
    disk,               \* the content of the file at config_path
    \* arguments
    arg_groups,         \* args.groups
    arg_ports,          \* args.ports
    arg_concurrent,     \* args.concurrent
    \* main
    pc,                 \* main's position
    groups_to_test,
    gi,                 \* index of the group loop (probing, then updating)
    all_test_results,
    outcome,            \* how the run ended, "running" until then
    exit_code,
    writes,             \* number of times the file was opened for writing
    \* ClashAPI
    base_url,           \* 0: None, else the port adopted
    port_idx,           \* index of check_connection's loop
    semaphore,          \* the semaphore's value (free slots)
    waiters,            \* the semaphore's FIFO of waiting tasks
    test_results_cache, \* _test_results_cache: name -> ProxyTestResult or None
    \* test_group_proxies
    tasks,              \* the batch's test_proxy_delay calls, in submission order
    results,            \* the batch's results, in completion order
    \* environment
    now,                \* datetime.now(), in seconds
    next_id,            \* identity of the next ProxyTestResult object
    requests,           \* requests sent to the daemon so far, per route
    \* inputs of the store's operations (SpecStore)
    store_results,
    store_group,
    config0             \* the document as loaded

vars == << config, disk, arg_groups, arg_ports, arg_concurrent, pc, groups_to_test,
           gi, all_test_results, outcome, exit_code, writes, base_url, port_idx,
           semaphore, waiters, test_results_cache, tasks, results, now, next_id, requests,
           store_results, store_group, config0 >>

\* ------------------------------------------------------------ ProxyTestResult

\* The argument `delay: Optional[float] = None`, when it is None.
NoDelay == 0 - 1

\* A failing result given a finite delay (`else 0` for `else float('inf')`).
ProxyTestResult_zero_delay(name, delay, t, id) ==
    [name |-> name,
     delay |-> IF delay # NoDelay THEN delay ELSE 0,
     status |-> IF delay # NoDelay THEN "ok" ELSE "fail",
     tested_time |-> t,
     id |-> id]

\* ProxyTestResult(name, delay): lines 29-30.
\* id is the object's identity (the class defines neither __eq__ nor __hash__).
ProxyTestResult(name, delay, t, id) ==
    [name |-> name,
     delay |-> IF delay # NoDelay THEN delay ELSE Inf,
     status |-> IF delay # NoDelay THEN "ok" ELSE "fail",
     tested_time |-> t,
     id |-> id]

is_valid(r) == r.status = "ok"

\* ---------------------------------------------------------------- sequences

Range(s) == {s[i] : i \in DOMAIN s}

Names(s) == [i \in DOMAIN s |-> s[i].name]

Front(s) == SubSeq(s, 1, Len(s) - 1)

SeqsUpTo(S, n) == UNION {[1..k -> S] : k \in 0..n}

\* list(set(xs)): the distinct objects of xs, in any order (a set of objects
\* hashed by identity iterates in an order the program does not control).
list_of_set(S) ==
    {s \in [1..Cardinality(S) -> S] : \A i, j \in DOMAIN s : i # j => s[i] # s[j]}

\* One step of list.sort(key=delay): r goes after every element whose key is
\* not larger, which keeps equal keys in their order of arrival (stable).
InsertByDelay(sorted, r) ==
    LET k == Cardinality({i \in DOMAIN sorted : sorted[i].delay <= r.delay})
    IN  SubSeq(sorted, 1, k) \o <<r>> \o SubSeq(sorted, k + 1, Len(sorted))

RECURSIVE StableSort(_)
StableSort(s) ==
    IF s = <<>> THEN <<>> ELSE InsertByDelay(StableSort(Front(s)), s[Len(s)])

\* The sort left out: the list stays in the order list(set(...)) gave it.
sort_by_delay_omitted(s) == s

\* valid_results.sort(key=lambda x: x.delay)
sort_by_delay(s) == StableSort(s)

\* ---------------------------------------------------------------- ClashConfig

\* A document: the master list under "proxies" (absent when has_proxies is
\* FALSE), the groups under "proxy-groups", and the fields the tool never reads.
\* A group: its name, its "proxies" list (absent when has_proxies is FALSE) and
\* its other fields.
ProxyDef(n) == [name |-> n, type |-> "ss"]

Group(n, has, members) ==
    [name |-> n, has_proxies |-> has, proxies |-> members, type |-> "url-test"]

get_group_names(cfg) == [i \in DOMAIN cfg.groups |-> cfg.groups[i].name]

\* The first group of that name, 0 when there is none.
FirstGroup(cfg, group_name) ==
    IF \E i \in DOMAIN cfg.groups : cfg.groups[i].name = group_name
    THEN CHOOSE i \in DOMAIN cfg.groups :
            /\ cfg.groups[i].name = group_name
            /\ \A j \in 1..(i - 1) : cfg.groups[j].name # group_name
    ELSE 0

get_group_proxies(cfg, group_name) ==
    LET i == FirstGroup(cfg, group_name)
    IN  IF i = 0 THEN <<>>
        ELSE IF cfg.groups[i].has_proxies THEN cfg.groups[i].proxies ELSE <<>>

\* The names of the master list.
MasterNames(cfg) == {cfg.proxies[i].name : i \in DOMAIN cfg.proxies}

invalid_proxies(rs) == {rs[i].name : i \in {j \in DOMAIN rs : ~is_valid(rs[j])}}

\* The removal with the loop over the groups (lines 176-179) left out.
remove_invalid_proxies_master_only(cfg, rs) ==
    LET invalid == invalid_proxies(rs)
    IN  IF invalid = {} \/ ~cfg.has_proxies THEN cfg
        ELSE [cfg EXCEPT !.proxies = SelectSeq(@, LAMBDA p : p.name \notin invalid)]

\* The master list filtered by list.remove inside a loop over the same list:
\* the entry that follows a removed one is stepped over.
RECURSIVE remove_while_iterating(_, _)
remove_while_iterating(s, invalid) ==
    IF s = <<>> THEN <<>>
    ELSE IF Head(s).name \notin invalid
         THEN <<Head(s)>> \o remove_while_iterating(Tail(s), invalid)
         ELSE IF Tail(s) = <<>> THEN <<>>
              ELSE <<Head(Tail(s))>> \o remove_while_iterating(Tail(Tail(s)), invalid)

remove_invalid_proxies_in_place(cfg, rs) ==
    LET invalid == invalid_proxies(rs)
    IN  IF invalid = {} THEN cfg
        ELSE [cfg EXCEPT
                !.proxies = IF cfg.has_proxies
                            THEN remove_while_iterating(@, invalid)
                            ELSE @,
                !.groups = [i \in DOMAIN @ |->
                              IF @[i].has_proxies
                              THEN [@[i] EXCEPT !.proxies =
                                      SelectSeq(@, LAMBDA p : p \notin invalid)]
                              ELSE @[i]]]

\* The loop over the groups assigning group["proxies"] for every group, read
\* with group.get("proxies", []): a group without the key gains an empty one.
remove_invalid_proxies_adds_key(cfg, rs) ==
    LET invalid == invalid_proxies(rs)
    IN  IF invalid = {} THEN cfg
        ELSE [cfg EXCEPT
                !.proxies = IF cfg.has_proxies
                            THEN SelectSeq(@, LAMBDA p : p.name \notin invalid)
                            ELSE @,
                !.groups = [i \in DOMAIN @ |->
                              [@[i] EXCEPT !.has_proxies = TRUE,
                                           !.proxies =
                                      SelectSeq(@, LAMBDA p : p \notin invalid)]]]

remove_invalid_proxies(cfg, rs) ==
    LET invalid == invalid_proxies(rs)
    IN  IF invalid = {} THEN cfg
        ELSE [cfg EXCEPT
                !.proxies = IF cfg.has_proxies
                            THEN SelectSeq(@, LAMBDA p : p.name \notin invalid)
                            ELSE @,
                !.groups = [i \in DOMAIN @ |->
                              IF @[i].has_proxies
                              THEN [@[i] EXCEPT !.proxies =
                                      SelectSeq(@, LAMBDA p : p \notin invalid)]
                              ELSE @[i]]]

\* valid_results = [r for r in results if r.is_valid]
valid_results(rs) == SelectSeq(rs, is_valid)

\* update_group_proxies with `order` the order in which list(set(valid_results))
\* came out.
update_group_proxies(cfg, group_name, rs, order) ==
    LET removed == remove_invalid_proxies(cfg, rs)
        sorted == sort_by_delay(order)
        i == FirstGroup(removed, group_name)
    IN  IF i = 0 THEN removed
        ELSE [removed EXCEPT !.groups[i].has_proxies = TRUE,
                             !.groups[i].proxies = Names(sorted)]

\* The orders list(set(valid_results)) may come out in.
set_orders(rs) == list_of_set(Range(valid_results(rs)))

\* -------------------------------------------------------------------- ClashAPI

\* Semaphore(MAX_CONCURRENT_TESTS) in ClashAPI.__init__, with the global bound to
\* the default it had when the module was loaded.
ClashAPI_semaphore_default(concurrent) == MAX_CONCURRENT_TESTS

\* Semaphore(MAX_CONCURRENT_TESTS) in ClashAPI.__init__: main() has assigned
\* args.concurrent to the global before it constructs the ClashAPI.
ClashAPI_semaphore(concurrent) == concurrent

\* What a candidate port answers to GET /version.
VersionAnswers == {"ok", "refused", "timeout", "status", "malformed"}

\* check_connection, one candidate: "adopt" the port, try the "next" one, or
\* "raise". httpx.RequestError (refused, timeout) is caught; a status other than
\* 200 falls through the if; response.json() of a body that is not JSON raises
\* a ValueError, which is no httpx.RequestError.
check_connection_step(answer) ==
    CASE answer = "ok" -> "adopt"
      [] answer \in {"refused", "timeout"} -> "next"
      [] answer = "status" -> "next"
      [] answer = "malformed" -> "raise"

\* What the daemon answers to GET /proxies/{name}/delay.
DelayAnswers ==
    {[kind |-> "delay", delay |-> d] : d \in Delays}
      \cup {[kind |-> k, delay |-> NoDelay] :
               k \in {"no_delay", "status", "transport", "timeout", "bad_body"}}

\* Lines 108-118: httpx.HTTPError covers the transport errors, the timeouts and
\* raise_for_status(); response.json() of a body that is not JSON raises a
\* ValueError, which the except clause does not catch.
probe_raises(answer) == answer.kind = "bad_body"

\* The delay handed to ProxyTestResult: the "delay" field, or None.
probe_delay(answer) == IF answer.kind = "delay" THEN answer.delay ELSE NoDelay

\* The cache test with <= for <.
cache_is_fresh_inclusive(cached, t) == t - cached.tested_time <= FreshSeconds

\* (datetime.now() - cached_result.tested_time).total_seconds() < 60
cache_is_fresh(cached, t) == t - cached.tested_time < FreshSeconds

Task(name, state, result, cached, t) ==
    [name |-> name, state |-> state, result |-> result,
     cached_at_call |-> cached, called_at |-> t]

\* The first step of one test_proxy_delay call, up to its first suspension: the
\* cache test, then Semaphore.acquire, which takes a slot at once when one is free
\* and nobody waits, and queues the caller otherwise. acc holds the tasks started
\* so far, the semaphore's value and its waiters.
test_proxy_delay_start(acc, name, cache, t) ==
    LET cached == cache[name]
        k == Len(acc.tasks) + 1
    IN  IF cached # None /\ cache_is_fresh(cached, t)
        THEN [acc EXCEPT !.tasks = Append(@, Task(name, "cached", cached, cached, t))]
        ELSE IF acc.semaphore > 0 /\ acc.waiters = <<>>
        THEN [acc EXCEPT !.tasks = Append(@, Task(name, "inflight", None, cached, t)),
                         !.semaphore = @ - 1]
        ELSE [acc EXCEPT !.tasks = Append(@, Task(name, "waiting", None, cached, t)),
                         !.waiters = Append(@, k)]

\* tasks = [clash_api.test_proxy_delay(n) for n in proxies], each run to its
\* first suspension in submission order, before any response can be delivered.
RECURSIVE start_tasks(_, _, _, _)
start_tasks(proxies, cache, t, acc) ==
    IF proxies = <<>> THEN acc
    ELSE start_tasks(Tail(proxies), cache, t,
                     test_proxy_delay_start(acc, Head(proxies), cache, t))

\* `async with self.semaphore` replaced by an acquire without a release.
release_omitted(acc) == acc

\* Semaphore.release at the end of `async with`: the slot goes to the first
\* waiter, which then issues its request, or back to the semaphore.
release(acc) ==
    IF acc.waiters = <<>> THEN [acc EXCEPT !.semaphore = @ + 1]
    ELSE [acc EXCEPT !.tasks[Head(acc.waiters)].state = "inflight",
                     !.waiters = Tail(@)]

\* ------------------------------------------------------------------------ main

\* The membership lists of a group of a run: every list of distinct names, and
\* one that lists a name twice.
MemberLists ==
    {m \in SeqsUpTo(ProxyNames, Cardinality(ProxyNames)) :
        \A i, j \in DOMAIN m : i # j => m[i] # m[j]}
      \cup {<<"x", "x">>}

\* A group of a run: one of these lists, or no "proxies" key at all.
MainGroups(n) ==
    {Group(n, TRUE, m) : m \in MemberLists} \cup {Group(n, FALSE, <<>>)}

MainMaster == [n \in 1..2 |-> ProxyDef(<<"a", "x">>[n])]

MainDocs ==
    {[has_proxies |-> TRUE, proxies |-> MainMaster, groups |-> <<g1, g2>>, port |-> 7890] :
        g1 \in MainGroups(GroupNames[1]), g2 \in MainGroups(GroupNames[2])}

\* -g/--groups: absent, one group, an unknown group.
ArgGroups == {<<>>, <<"g1">>, <<"missing-group">>}

\* -p/--ports: a list of n candidate ports.
PortList(n) == [i \in 1..n |-> 9089 + i]

Init ==
    /\ config0 \in MainDocs
    /\ config = config0
    /\ disk = config0
    /\ arg_groups \in ArgGroups
    /\ arg_ports = PortList(MaxPorts)
    /\ arg_concurrent \in 1..MaxConcurrent
    /\ pc = "start"
    /\ groups_to_test = <<>>
    /\ gi = 0
    /\ all_test_results = <<>>
    /\ outcome = "running"
    /\ exit_code = 0
    /\ writes = 0
    /\ base_url = 0
    /\ port_idx = 0
    /\ semaphore = 0
    /\ waiters = <<>>
    /\ test_results_cache = [n \in ProxyNames |-> None]
    /\ tasks = <<>>
    /\ results = <<>>
    /\ now = 0
    /\ next_id = 1
    /\ requests = [version |-> 0, delay |-> 0]
    /\ store_results = <<>>
    /\ store_group = ""

storeVars == << store_results, store_group, config0 >>
envVars == << now, next_id, requests >>
inputVars == << arg_groups, arg_ports, arg_concurrent >>
apiVars == << base_url, port_idx, semaphore, waiters, test_results_cache >>
batchVars == << tasks, results >>

\* The run is over: main returned (exit status 0) or an exception or sys.exit
\* ended the process.
Exit(how, code) ==
    /\ pc' = "done"
    /\ outcome' = how
    /\ exit_code' = code

\* Line 304, `if not groups_to_test`: is no group left to test?
no_valid_groups_never(resolved) == FALSE

no_valid_groups(resolved) == resolved = <<>>

\* Lines 294-315: resolve the requested groups against the document's; with none
\* left main returns; otherwise the ClashAPI is constructed.
ResolveGroups ==
    /\ pc = "start"
    /\ LET available == get_group_names(config)
           requested == IF arg_groups # <<>> THEN arg_groups ELSE available
           invalid_groups == Range(requested) \ Range(available)
       IN  \E resolved \in IF invalid_groups # {}
                           THEN list_of_set(Range(requested) \cap Range(available))
                           ELSE {requested} :
              /\ groups_to_test' = resolved
              /\ IF no_valid_groups(resolved)
                 THEN /\ Exit("no_groups", 0)
                      /\ UNCHANGED << semaphore, port_idx >>
                 ELSE /\ pc' = "connect"
                      /\ semaphore' = ClashAPI_semaphore(arg_concurrent)
                      /\ port_idx' = 1
                      /\ UNCHANGED << outcome, exit_code >>
    /\ UNCHANGED << config, disk, inputVars, gi, all_test_results, writes, base_url,
                    waiters, test_results_cache, batchVars, envVars, storeVars >>

\* check_connection: one iteration of `for port in self.ports`.
TryPort ==
    /\ pc = "connect"
    /\ port_idx <= Len(arg_ports)
    /\ \E answer \in VersionAnswers :
          LET step == check_connection_step(answer)
          IN  \/ /\ step = "adopt"
                 /\ base_url' = arg_ports[port_idx]
                 /\ pc' = "probe"
                 /\ gi' = 1
                 /\ UNCHANGED << port_idx, outcome, exit_code >>
              \/ /\ step = "next"
                 /\ port_idx' = port_idx + 1
                 /\ UNCHANGED << base_url, pc, gi, outcome, exit_code >>
              \/ /\ step = "raise"
                 /\ Exit("connect_error", 1)
                 /\ UNCHANGED << base_url, port_idx, gi >>
    /\ requests' = [requests EXCEPT !.version = @ + 1]
    /\ UNCHANGED << config, disk, inputVars, groups_to_test, all_test_results, writes,
                    semaphore, waiters, test_results_cache, batchVars, now, next_id,
                    storeVars >>

\* Line 316 without its `return`: the result of check_connection is ignored.
AllPortsFailed_ignored ==
    /\ pc = "connect"
    /\ port_idx > Len(arg_ports)
    /\ pc' = "probe"
    /\ gi' = 1
    /\ UNCHANGED << config, disk, inputVars, groups_to_test, all_test_results,
                    outcome, exit_code, writes, apiVars, batchVars, envVars,
                    storeVars >>

\* check_connection returns False after the last candidate; main returns.
AllPortsFailed ==
    /\ pc = "connect"
    /\ port_idx > Len(arg_ports)
    /\ Exit("no_connection", 0)
    /\ UNCHANGED << config, disk, inputVars, groups_to_test, gi, all_test_results,
                    writes, apiVars, batchVars, envVars, storeVars >>

\* Lines 323-329: a selected group without members is skipped.
SkipEmptyGroup ==
    /\ pc = "probe"
    /\ gi <= Len(groups_to_test)
    /\ get_group_proxies(config, groups_to_test[gi]) = <<>>
    /\ gi' = gi + 1
    /\ UNCHANGED << config, disk, inputVars, pc, groups_to_test, all_test_results,
                    outcome, exit_code, writes, apiVars, batchVars, envVars,
                    storeVars >>

\* test_group_proxies, up to its first await: every task runs to its first
\* suspension; the cache hits complete at once, in submission order.
SubmitBatch ==
    /\ pc = "probe"
    /\ gi <= Len(groups_to_test)
    /\ base_url # 0                 \* lines 97-98: no probe without a base URL
    /\ LET proxies == get_group_proxies(config, groups_to_test[gi])
           started == start_tasks(proxies, test_results_cache, now,
                                  [tasks |-> <<>>, semaphore |-> semaphore,
                                   waiters |-> waiters])
       IN  /\ proxies # <<>>
           /\ tasks' = started.tasks
           /\ semaphore' = started.semaphore
           /\ waiters' = started.waiters
           /\ results' = [i \in 1..Cardinality({j \in DOMAIN started.tasks :
                                                  started.tasks[j].state = "cached"}) |->
                            SelectSeq(started.tasks,
                                      LAMBDA k : k.state = "cached")[i].result]
           /\ requests' = [requests EXCEPT !.delay = @ + Cardinality(
                              {j \in DOMAIN started.tasks :
                                  started.tasks[j].state = "inflight"})]
    /\ pc' = "batch"
    /\ UNCHANGED << config, disk, inputVars, groups_to_test, gi, all_test_results,
                    outcome, exit_code, writes, base_url, port_idx, test_results_cache,
                    now, next_id, storeVars >>

\* The daemon's answer to the request of task t arrives: lines 114-122, the
\* release of the semaphore, and the as_completed loop taking the result (or the
\* exception, which leaves test_group_proxies and main: lines 357-359, 368-370).
Respond(t) ==
    /\ pc = "batch"
    /\ tasks[t].state = "inflight"
    /\ \E answer \in DelayAnswers :
          LET r == ProxyTestResult(tasks[t].name, probe_delay(answer), now, next_id)
              raised == probe_raises(answer)
              finished == IF raised
                          THEN [tasks EXCEPT ![t].state = "raised"]
                          ELSE [tasks EXCEPT ![t].state = "done", ![t].result = r]
              released == release([tasks |-> finished, semaphore |-> semaphore,
                                   waiters |-> waiters])
          IN  /\ tasks' = released.tasks
              /\ semaphore' = released.semaphore
              /\ waiters' = released.waiters
              /\ requests' = [requests EXCEPT !.delay =
                                 IF waiters = <<>> THEN @ ELSE @ + 1]
              /\ IF raised
                 THEN /\ Exit("probe_error", 1)
                      /\ UNCHANGED << test_results_cache, results, next_id >>
                 ELSE /\ test_results_cache' = [test_results_cache EXCEPT ![r.name] = r]
                      /\ results' = Append(results, r)
                      /\ next_id' = next_id + 1
                      /\ UNCHANGED << pc, outcome, exit_code >>
    /\ UNCHANGED << config, disk, inputVars, groups_to_test, gi, all_test_results,
                    writes, base_url, port_idx, now, storeVars >>

BatchComplete == \A t \in DOMAIN tasks : tasks[t].state \in {"cached", "done"}

\* test_group_proxies returns; lines 333-336.
BatchReturn ==
    /\ pc = "batch"
    /\ BatchComplete
    /\ all_test_results' = all_test_results \o results
    /\ gi' = gi + 1
    /\ pc' = "probe"
    /\ tasks' = <<>>
    /\ results' = <<>>
    /\ UNCHANGED << config, disk, inputVars, groups_to_test, outcome, exit_code, writes,
                    apiVars, envVars, storeVars >>

\* Line 339, after the last group's batch.
RemoveInvalid ==
    /\ pc = "probe"
    /\ gi > Len(groups_to_test)
    /\ config' = remove_invalid_proxies(config, all_test_results)
    /\ pc' = "update"
    /\ gi' = 1
    /\ UNCHANGED << disk, inputVars, groups_to_test, all_test_results, outcome,
                    exit_code, writes, apiVars, batchVars, envVars, storeVars >>

\* group_results = [r for r in all_test_results if r.name in group_proxies]
group_results(cfg, group_name, rs) ==
    LET group_proxies == get_group_proxies(cfg, group_name)
    IN  SelectSeq(rs, LAMBDA r : r.name \in Range(group_proxies))

\* Lines 342-346: one iteration of the update loop.
UpdateGroup ==
    /\ pc = "update"
    /\ gi <= Len(groups_to_test)
    /\ LET rs == group_results(config, groups_to_test[gi], all_test_results)
       IN  \E order \in set_orders(rs) :
              config' = update_group_proxies(config, groups_to_test[gi], rs, order)
    /\ gi' = gi + 1
    /\ UNCHANGED << disk, inputVars, pc, groups_to_test, all_test_results, outcome,
                    exit_code, writes, apiVars, batchVars, envVars, storeVars >>

\* save() called from inside the update loop, after the first group.
save_reached_in_loop(i, n) == i > 1

\* config.save() follows the update loop (line 349).
save_reached(i, n) == i > n

\* How the write of the file may go.
SaveIO == {"ok", "open_fails", "dump_fails"}

\* The file after save(): open(path, 'w') truncates it, yaml.dump fills it.
\* Partial stands for a truncated or partly written file.
Partial == [has_proxies |-> FALSE, proxies |-> <<>>, groups |-> <<>>, port |-> 0]

save(file, cfg, io) ==
    CASE io = "ok" -> cfg
      [] io = "open_fails" -> file
      [] io = "dump_fails" -> Partial

\* Lines 349-353 and save(): on any exception save() calls sys.exit(1).
Save ==
    /\ pc = "update"
    /\ save_reached(gi, Len(groups_to_test))
    /\ \E io \in SaveIO :
          /\ disk' = save(disk, config, io)
          /\ writes' = IF io = "open_fails" THEN writes ELSE writes + 1
          /\ IF io = "ok" THEN Exit("success", 0) ELSE Exit("save_failed", 1)
    /\ UNCHANGED << config, inputVars, groups_to_test, gi, all_test_results, apiVars,
                    batchVars, envVars, storeVars >>

\* KeyboardInterrupt while main awaits the network: lines 365-367.
Interrupt ==
    /\ pc \in {"connect", "batch"}
    /\ Exit("interrupted", 0)
    /\ UNCHANGED << config, disk, inputVars, groups_to_test, gi, all_test_results,
                    writes, apiVars, batchVars, envVars, storeVars >>

\* Time passes while the answer to a request is awaited.
Tick ==
    /\ pc = "batch"
    /\ \E t \in DOMAIN tasks : tasks[t].state = "inflight"
    /\ now + TickSeconds <= MaxTicks * TickSeconds
    /\ now' = now + TickSeconds
    /\ UNCHANGED << config, disk, inputVars, pc, groups_to_test, gi, all_test_results,
                    outcome, exit_code, writes, apiVars, batchVars, next_id, requests,
                    storeVars >>

Next ==
    \/ ResolveGroups
    \/ TryPort
    \/ AllPortsFailed
    \/ SkipEmptyGroup
    \/ SubmitBatch
    \/ \E t \in DOMAIN tasks : Respond(t)
    \/ BatchReturn
    \/ RemoveInvalid
    \/ UpdateGroup
    \/ Save
    \/ Interrupt
    \/ Tick

Spec == Init /\ [][Next]_vars

\* The largest batch: a group lists at most this many members.
MaxBatch == Cardinality(ProxyNames)

\* Every request is answered: the httpx client carries a timeout (line 42), so
\* a response, an error or a timeout comes back for each request sent; and the
\* event loop resumes test_group_proxies once its last task has finished.
Fairness ==
    /\ \A t \in 1..MaxBatch : WF_vars(t \in DOMAIN tasks /\ Respond(t))
    /\ WF_vars(BatchReturn)

SpecLive == Init /\ [][Next]_vars /\ Fairness

\* ----------------------------------------------------------------- run claims

InFlight == {t \in DOMAIN tasks : tasks[t].state = "inflight"}

\* C1: at no point do more test_proxy_delay calls have a delay request
\* outstanding than the configured concurrency limit, whatever the group size.
C1_ConcurrencyBound == Cardinality(InFlight) <= arg_concurrent

C1_Witness ==
    /\ Len(tasks) > arg_concurrent
    /\ Cardinality(InFlight) = arg_concurrent
    /\ \E t \in DOMAIN tasks : tasks[t].state = "done"

Count(s, n) == Cardinality({i \in DOMAIN s : s[i].name = n})

\* C2: test_group_proxies never raises, whatever the daemon answers to the
\* probes, and returns exactly one result per submitted member.
C2_BatchNeverShortCircuits ==
    /\ outcome # "probe_error"
    /\ (pc = "batch" /\ BatchComplete) =>
          /\ Len(results) = Len(tasks)
          /\ \A n \in ProxyNames : Count(results, n) = Count(tasks, n)

\* The groups update_group_proxies has rewritten so far.
UpdatedGroups ==
    IF pc = "update" \/ outcome \in {"success", "save_failed"}
    THEN {groups_to_test[k] : k \in 1..(gi - 1)}
    ELSE {}

NoDuplicates(m) == \A i, j \in DOMAIN m : i # j => m[i] # m[j]

\* The last result of the run that carries the name n.
LastSeen(n) ==
    all_test_results[CHOOSE i \in DOMAIN all_test_results :
                        /\ all_test_results[i].name = n
                        /\ \A j \in DOMAIN all_test_results :
                              all_test_results[j].name = n => j <= i]

\* C6: in a group rewritten by update_group no endpoint name appears more than
\* once, and the members are placed by the delay of their last-seen result.
C6_UpdateGroupDeduplicates ==
    \A g \in UpdatedGroups :
        LET m == get_group_proxies(config, g)
        IN  /\ NoDuplicates(m)
            /\ \A i, j \in DOMAIN m :
                  i < j => LastSeen(m[i]).delay <= LastSeen(m[j]).delay

GroupMembers(cfg) == UNION {Range(cfg.groups[g].proxies) : g \in DOMAIN cfg.groups}

\* C7: after a full run, an endpoint whose probe failed in the batch of a
\* selected group is absent from every group's membership, selected or not,
\* and from the master proxy list, in the document and in the file.
C7_SharedEndpointRemoved ==
    outcome = "success" =>
        \A n \in invalid_proxies(all_test_results) :
            /\ n \notin GroupMembers(config) \cup MasterNames(config)
            /\ n \notin GroupMembers(disk) \cup MasterNames(disk)

C7_Witness ==
    /\ outcome = "success"
    /\ groups_to_test = <<"g1">>
    /\ "x" \in Range(config0.groups[1].proxies) \cap Range(config0.groups[2].proxies)
    /\ "x" \in invalid_proxies(all_test_results)
    /\ "x" \notin GroupMembers(disk) \cup MasterNames(disk)

\* The cache held, when the call was made, a result for the name recorded less
\* than 60 seconds earlier.
FreshAtCall(k) ==
    /\ k.cached_at_call # None
    /\ k.called_at - k.cached_at_call.tested_time < 60

C8_Calls ==
    \A t \in DOMAIN tasks :
        LET k == tasks[t]
        IN  /\ FreshAtCall(k) => k.state = "cached" /\ k.result = k.cached_at_call
            /\ ~FreshAtCall(k) =>
                  /\ k.state # "cached"
                  /\ k.state = "done" =>
                        /\ k.result.id # k.cached_at_call.id
                        /\ k.result.tested_time >= k.called_at

\* The calls of a batch send one request for each call that found no fresh
\* result and got a slot; a call answered from the cache never sends one; the
\* result of an answered request replaces the cache entry.
C8_Step ==
    /\ (pc = "probe" /\ pc' = "batch") =>
          requests'.delay = requests.delay
              + Cardinality({t \in DOMAIN tasks' :
                    ~FreshAtCall(tasks'[t]) /\ tasks'[t].state # "waiting"})
    /\ \A t \in DOMAIN tasks :
          /\ (tasks[t].state = "cached" /\ pc' = "batch") => tasks'[t] = tasks[t]
          /\ (tasks[t].state = "inflight" /\ pc' = "batch" /\ tasks'[t].state = "done")
                => test_results_cache'[tasks[t].name] = tasks'[t].result

AbortedBeforeSave ==
    outcome \in {"interrupted", "probe_error", "connect_error", "no_connection",
                 "no_groups"}

C9_Writes ==
    /\ writes <= 1
    /\ outcome = "success" => writes = 1 /\ disk = config
    /\ AbortedBeforeSave => writes = 0 /\ disk = config0

C9_Step ==
    /\ writes' # writes =>
          /\ pc = "update" /\ gi > Len(groups_to_test)
          /\ config' = config
    /\ writes >= 1 => config' = config /\ disk' = disk

\* C9: the file is written exactly once, after the last mutation of the
\* document, in a run whose connection and probing succeeded; a run interrupted
\* during probing or aborted by an error before the save never writes it.
C9_SavedOnceAtEnd == []C9_Writes /\ [][C9_Step]_vars

C9_Witness ==
    /\ outcome = "success"
    /\ writes = 1
    /\ disk = config
    /\ disk # config0

\* C10: check_connection never raises, whatever the candidates answer; it
\* returns true with the first candidate that answers successfully as base URL,
\* and false with no base URL when every candidate fails.
C10_ConnectNeverRaises ==
    /\ outcome # "connect_error"
    /\ outcome = "no_connection" => base_url = 0 /\ port_idx > Len(arg_ports)
    /\ base_url # 0 => base_url = arg_ports[port_idx]

\* C11: the process exits 0 only on success; it exits non-zero when no
\* requested group exists, when no candidate is reachable and on an uncaught
\* error; a user interrupt exits non-zero with a status other than the error's.
C11_ExitStatus ==
    pc = "done" =>
       /\ exit_code = 0 <=> outcome = "success"
       /\ outcome = "interrupted" => exit_code \notin {0, 1}

AllRequestedUnknown ==
    /\ arg_groups # <<>>
    /\ Range(arg_groups) \cap Range(get_group_names(config0)) = {}

Untouched ==
    /\ config = config0
    /\ disk = config0
    /\ writes = 0

\* C12: when every requested group name is absent from the document's groups,
\* the run sends no request to the control plane (not even the version check),
\* never changes the document in memory and never writes the file.
C12_UnknownGroupAbort ==
    AllRequestedUnknown =>
       /\ requests.version = 0
       /\ requests.delay = 0
       /\ Untouched

C12_Witness ==
    /\ AllRequestedUnknown
    /\ pc = "done"
    /\ outcome = "no_groups"

AllCandidatesFailed ==
    /\ port_idx > Len(arg_ports)
    /\ base_url = 0

\* C13: when the connection attempt has failed for every candidate address, the
\* run sends no delay request (main never asks for the proxy list), leaves the
\* document in memory as loaded and never writes the file.
C13_UnreachableAbort ==
    AllCandidatesFailed =>
       /\ requests.delay = 0
       /\ Untouched

C13_Witness ==
    /\ AllCandidatesFailed
    /\ outcome = "no_connection"
    /\ requests.version = Len(arg_ports)
    /\ Untouched

\* Every ProxyTestResult object the run holds.
ProbeResults ==
    (Range(results) \cup Range(all_test_results)
       \cup {test_results_cache[n] : n \in DOMAIN test_results_cache}
       \cup {tasks[t].result : t \in DOMAIN tasks}) \ {None}

C16_RemovesLatestFailures ==
    (pc = "update" /\ gi = 1) =>
       \A n \in Range(Names(all_test_results)) :
          /\ n \in MasterNames(config0) =>
                (n \in MasterNames(config) <=> LastSeen(n).status = "ok")
          /\ \A g \in DOMAIN config0.groups :
                n \in Range(config0.groups[g].proxies) =>
                   (n \in Range(config.groups[g].proxies) <=> LastSeen(n).status = "ok")

\* C19: when save() fails, at whatever point, the process exits with an error
\* status and the file on disk still holds the content it had before the run,
\* neither truncated nor partly overwritten.
C19_SaveFailureKeepsFile ==
    outcome = "save_failed" =>
       /\ exit_code # 0
       /\ disk = config0

\* C20: a selected group with no members, or with no membership field, is not
\* probed and its definition stays as loaded: no membership field is added to
\* it and no field of it is altered.
C20_EmptyGroupUnchanged ==
    \A g \in DOMAIN config0.groups :
       (/\ config0.groups[g].name \in Range(groups_to_test)
        /\ get_group_proxies(config0, config0.groups[g].name) = <<>>) =>
          /\ config.groups[g] = config0.groups[g]
          /\ pc = "batch" => groups_to_test[gi] # config0.groups[g].name

Waiting(t) == pc = "batch" /\ t \in DOMAIN tasks /\ tasks[t].state = "waiting"

Acquired(t) == pc = "batch" /\ t \in DOMAIN tasks /\ tasks[t].state = "inflight"

\* Every slot is either free or held by a request in flight, and nobody waits
\* while a slot is free.
SlotsConserved ==
    pc \in {"connect", "probe", "batch", "update", "done"} /\ outcome # "no_groups" =>
       /\ semaphore + Cardinality(InFlight) = arg_concurrent
       /\ waiters # <<>> => semaphore = 0
       /\ pc \in {"probe", "update"} => semaphore = arg_concurrent

\* C18: every test_proxy_delay call gives its slot back on every exit path
\* (result, caught failure, propagated exception); so, every request being
\* answered and the limit being at least 1, every probe waiting for a slot
\* gets one and every batch comes to its end, also when the group is larger
\* than the limit (unless the run itself is ended by an error or by the user).
C18_LimiterLiveness ==
    /\ []SlotsConserved
    /\ \A t \in 1..MaxBatch : Waiting(t) ~> (Acquired(t) \/ pc = "done")
    /\ (pc = "batch") ~> (pc = "probe" \/ pc = "done")

C18_Witness ==
    /\ arg_concurrent = 1
    /\ pc = "batch"
    /\ Len(tasks) = 2
    /\ tasks[1].state = "done"
    /\ tasks[2].state = "done"
    /\ semaphore = 1

\* ------------------------------------------------------- the store's operations

\* The results collections handed to the store: every sequence of at most n
\* result objects, where an object may occur more than once (a cached result
\* returned again) and two objects may carry the same name.
RECURSIVE ResultSeqs(_)
ResultSeqs(n) ==
    IF n = 0 THEN {<<>>}
    ELSE LET prev == ResultSeqs(n - 1)
             full == {s \in prev : Len(s) = n - 1}
             fresh(s) == {ProxyTestResult(nm, d, 0, Cardinality(Range(s)) + 1) :
                             nm \in StoreNames, d \in Delays \cup {NoDelay}}
         IN  prev \cup UNION {{Append(s, r) : r \in Range(s) \cup fresh(s)} : s \in full}

StoreMaster == [n \in 1..3 |-> ProxyDef(<<"a", "b", "c">>[n])]

StoreDocs ==
    {[has_proxies |-> hm,
      proxies |-> IF hm THEN StoreMaster ELSE <<>>,
      groups |-> <<g1, g2>>,
      port |-> 7890] :
        hm \in BOOLEAN,
        g1 \in {Group("g1", TRUE, <<"a", "b", "c">>), Group("g1", FALSE, <<>>)},
        g2 \in {Group("g2", TRUE, <<"b", "c">>)}}

\* The main run's variables, at rest.
MainIdle ==
    /\ arg_groups = <<>>
    /\ arg_ports = <<>>
    /\ arg_concurrent = MAX_CONCURRENT_TESTS
    /\ groups_to_test = <<>>
    /\ gi = 0
    /\ all_test_results = <<>>
    /\ outcome = "running"
    /\ exit_code = 0
    /\ writes = 0
    /\ base_url = 0
    /\ port_idx = 0
    /\ semaphore = 0
    /\ waiters = <<>>
    /\ test_results_cache = [n \in StoreNames |-> None]
    /\ tasks = <<>>
    /\ results = <<>>
    /\ now = 0
    /\ next_id = 1
    /\ requests = [version |-> 0, delay |-> 0]

InitStore ==
    /\ config0 \in StoreDocs
    /\ config = config0
    /\ disk = config0
    /\ store_results \in ResultSeqs(MaxResults)
    /\ store_group = ""
    /\ pc = "store"
    /\ MainIdle

mainVars == << disk, arg_groups, arg_ports, arg_concurrent, groups_to_test, gi,
               all_test_results, outcome, exit_code, writes, base_url, port_idx,
               semaphore, waiters, test_results_cache, tasks, results, now, next_id,
               requests >>

\* config.update_group_proxies(group_name, store_results)
StoreUpdateGroup ==
    /\ pc = "store"
    /\ \E g \in Range(get_group_names(config)) \cup {"missing-group"} :
       \E order \in set_orders(store_results) :
          /\ config' = update_group_proxies(config, g, store_results, order)
          /\ store_group' = g
    /\ pc' = "updated"
    /\ UNCHANGED << mainVars, store_results, config0 >>

\* config.remove_invalid_proxies(store_results)
StoreRemoveInvalid ==
    /\ pc = "store"
    /\ config' = remove_invalid_proxies(config, store_results)
    /\ pc' = "removed"
    /\ UNCHANGED << mainVars, store_results, store_group, config0 >>

\* config.remove_invalid_proxies(store_results), called once more.
StoreRemoveInvalidAgain ==
    /\ pc = "removed"
    /\ config' = remove_invalid_proxies(config, store_results)
    /\ pc' = "removed_twice"
    /\ UNCHANGED << mainVars, store_results, store_group, config0 >>

NextStore == StoreUpdateGroup \/ StoreRemoveInvalid \/ StoreRemoveInvalidAgain

SpecStore == InitStore /\ [][NextStore]_vars

\* --------------------------------------------------------------- store claims

\* The target group's membership after update_group_proxies.
StoreMembership == get_group_proxies(config, store_group)

StoreUpdated == pc = "updated" /\ FirstGroup(config0, store_group) # 0

NonDecreasing(s) == \A i, j \in DOMAIN s : i < j => s[i].delay <= s[j].delay

IsScenarioA(rs) ==
    /\ Len(rs) = 3
    /\ {<<rs[i].name, rs[i].delay>> : i \in DOMAIN rs}
         = {<<"a", 120>>, <<"b", Inf>>, <<"c", 80>>}

\* C3: after update_group(name, results) on an existing group, the group's
\* membership is exactly the names of the valid results, ordered by
\* non-decreasing delay, and every name with a fail result is absent from the
\* master proxy list; members a=120, b=fail, c=80 yield [c, a].
C3_UpdateGroupSortsValid ==
    StoreUpdated =>
        /\ \E s \in list_of_set(Range(valid_results(store_results))) :
              /\ NonDecreasing(s)
              /\ StoreMembership = Names(s)
        /\ MasterNames(config) \cap invalid_proxies(store_results) = {}
        /\ IsScenarioA(store_results) => StoreMembership = <<"c", "a">>

C3_Witness ==
    /\ StoreUpdated
    /\ IsScenarioA(store_results)
    /\ config0.has_proxies
    /\ config0.groups[1].proxies = <<"a", "b", "c">>
    /\ store_group = "g1"
    /\ StoreMembership = <<"c", "a">>
    /\ "b" \notin MasterNames(config)

\* C4: after update_group(name, results), no name that has a fail result in
\* results is a member of the target group, also when results holds both a
\* fail result and an ok result for that name.
C4_NoFailingNameInGroup ==
    StoreUpdated => Range(StoreMembership) \cap invalid_proxies(store_results) = {}

\* Position of a name that occurs once in a membership list.
PosOf(m, n) == CHOOSE i \in DOMAIN m : m[i] = n

\* C5: two valid results with equal delay keep, in the rewritten membership,
\* the relative order they have in the supplied results collection.
C5_UpdateGroupStable ==
    StoreUpdated =>
        \A i, j \in DOMAIN store_results :
            ( /\ i < j
              /\ is_valid(store_results[i]) /\ is_valid(store_results[j])
              /\ store_results[i].delay = store_results[j].delay
              /\ store_results[i].name # store_results[j].name
              /\ \A k \in DOMAIN store_results :
                    is_valid(store_results[k]) /\ k \notin {i, j}
                        => store_results[k].name \notin
                              {store_results[i].name, store_results[j].name} )
            => PosOf(StoreMembership, store_results[i].name)
                 < PosOf(StoreMembership, store_results[j].name)

\* C14: remove_invalid_proxies is idempotent: calling it twice with the same
\* results leaves the document (master list and every group's membership)
\* exactly as one call leaves it.
C14_RemoveInvalidIdempotent ==
    pc = "removed_twice" => config = remove_invalid_proxies(config0, store_results)

C14_Witness ==
    /\ pc = "removed_twice"
    /\ Cardinality(invalid_proxies(store_results)) >= 2
    /\ config0.has_proxies
    /\ Len(config.proxies) < Len(config0.proxies)
    /\ \E g \in DOMAIN config.groups :
          Len(config.groups[g].proxies) < Len(config0.groups[g].proxies)

\* The names with a failing result in rs.
Failing(rs) == {rs[i].name : i \in {j \in DOMAIN rs : rs[j].status = "fail"}}

\* C17: after remove_invalid_proxies the master list and every group's
\* membership are their previous values with the failing names deleted (the
\* remaining entries in their order, none added or altered), every other field
\* of the document is unchanged, and with no failing result the whole document
\* is unchanged.
C17_RemoveInvalidFrame ==
    pc = "removed" =>
       LET F == Failing(store_results)
       IN  /\ config.has_proxies = config0.has_proxies
           /\ config.port = config0.port
           /\ config.proxies = SelectSeq(config0.proxies, LAMBDA p : p.name \notin F)
           /\ DOMAIN config.groups = DOMAIN config0.groups
           /\ \A g \in DOMAIN config0.groups :
                 config.groups[g] =
                    [config0.groups[g] EXCEPT
                        !.proxies = SelectSeq(@, LAMBDA p : p \notin F)]
           /\ F = {} => config = config0

C17_Witness ==
    /\ pc = "removed"
    /\ Failing(store_results) = {"b"}
    /\ Names(config.proxies) = <<"a", "c">>
    /\ config.groups[1].proxies = <<"a", "c">>
    /\ config.groups[2].proxies = <<"c">>

====
